---- MODULE Spec2Model ----
(***************************************************************************)
(* Model of scripts/rename_cursor_functions.py: the scanner                *)
(* (find_dispatchers), the eliminator (remove_dispatchers), the rewriter   *)
(* (rename_cursor_functions) and the per-file driver (process_file).       *)
(*                                                                         *)
(* A document is the list content.split('\n').  A line is a record         *)
(* [kind, name]; kind fixes the text around the identifier and name is the *)
(* identifier, a sequence of tokens whose concatenation is the text        *)
(* (<<"parseA", "Cursor">> is parseACursor):                               *)
(*   blank     ""                                                          *)
(*   text      "\tx := 1"                                                  *)
(*   close     "}"                                                         *)
(*   closeCmt  "} // end"                                                  *)
(*   func      "func (p *Parser) <name>(x int) Node {"                     *)
(*   funcOpen  "func (p *Parser) <name>("                                  *)
(*   cmtFunc   "// func (p *Parser) <name>(x int) Node {"                  *)
(*   ret       "\treturn p.<name>(x)"                                      *)
(*   call      "\tn := p.<name>(x)"                                        *)
(* Line indices are zero-based as in the source; At reads index i.         *)
(***************************************************************************)
EXTENDS Integers, Sequences, FiniteSets, TLC

VARIABLES doc, file, content, dispatchers, pending, lines, origin, rescan, pc

vars == <<doc, file, content, dispatchers, pending, lines, origin, rescan, pc>>

\* ---- bounds ----
MaxLen == 8
MaxNamesLen == 5

\* ---- identifiers ----
Suffix == "Cursor"
NoName == <<>>
parseA == <<"parseA">>
parseACursor == <<"parseA", "Cursor">>
parseBCursor == <<"parseB", "Cursor">>
ParseIdents == {"parseA", "parseB"}

\* ---- lines ----
Ln(k, n) == [kind |-> k, name |-> n]
Blank == Ln("blank", NoName)
Text == Ln("text", NoName)
Close == Ln("close", NoName)
CloseCmt == Ln("closeCmt", NoName)

AlphaCore == {Blank, Text, Close, Ln("func", parseA), Ln("ret", parseACursor)}

AlphaNames ==
  {Blank, Text, Close, CloseCmt, Ln("func", parseA), Ln("func", parseACursor),
   Ln("ret", parseACursor), Ln("ret", parseBCursor),
   Ln("cmtFunc", parseACursor), Ln("funcOpen", parseACursor),
   Ln("call", parseACursor)}

At(ls, i) == ls[i + 1]

\* str.strip() is empty
IsBlank(line) == line.kind = "blank"

\* str.strip() == '}'
IsClosing(line) == line.kind = "close"

\* identifier matched by parse\w+
IsParseName(n) == Len(n) >= 1 /\ n[1] \in ParseIdents

\* identifier matched by \w+Cursor
EndsWithCursor(n) == Len(n) >= 2 /\ n[Len(n)] = Suffix

\* re.match(r'^func \(p \*Parser\) (parse\w+)\((.*?)\)(.*?)\{', line)
FuncMatch(line) == line.kind = "func" /\ IsParseName(line.name)

\* re.match(r'\s*return p\.(\w+Cursor)\(', line)
ReturnMatch(line) == line.kind = "ret" /\ EndsWithCursor(line.name)

\* func_name + "Cursor"
ExpectedCursor(func_name) == Append(func_name, Suffix)

VerifyCursorLoose(cursor_func, func_name) == TRUE

\* cursor_func == expected_cursor
VerifyCursor(cursor_func, func_name) == cursor_func = ExpectedCursor(func_name)

\* while j < len(lines) and not lines[j].strip(): j += 1
RECURSIVE SkipBlank(_, _)
SkipBlank(ls, j) ==
  IF j < Len(ls) /\ IsBlank(At(ls, j)) THEN SkipBlank(ls, j + 1) ELSE j

\* while k < len(lines) and lines[k].strip() != '}': k += 1
RECURSIVE FindClose(_, _)
FindClose(ls, k) ==
  IF k < Len(ls) /\ ~IsClosing(At(ls, k)) THEN FindClose(ls, k + 1) ELSE k

Dispatcher(n, c, s, e) ==
  [name |-> n, cursor_name |-> c, start_line |-> s, end_line |-> e]

ResumeNoSkip(i, k) == i + 1

\* i = k; i += 1
ResumeAfter(i, k) == k + 1

\* the while loop of find_dispatchers from index i, acc the records so far
RECURSIVE ScanFrom(_, _, _)
ScanFrom(ls, i, acc) ==
  IF i >= Len(ls) THEN acc
  ELSE IF ~FuncMatch(At(ls, i)) THEN ScanFrom(ls, i + 1, acc)
  ELSE
    LET func_name == At(ls, i).name
        j == SkipBlank(ls, i + 1)
    IN IF j < Len(ls) /\ ReturnMatch(At(ls, j))
          /\ VerifyCursor(At(ls, j).name, func_name)
       THEN LET k == FindClose(ls, j + 1)
            IN IF k < Len(ls)
               THEN ScanFrom(ls, ResumeAfter(i, k),
                             Append(acc, Dispatcher(func_name, At(ls, j).name, i, k)))
               ELSE ScanFrom(ls, i + 1, acc)
       ELSE ScanFrom(ls, i + 1, acc)

find_dispatchers(c) == ScanFrom(c, 0, <<>>)

\* content.split('\n') of '\n'.join(ls): the empty string splits to ['']
Join(ls) == IF ls = <<>> THEN <<Blank>> ELSE ls

\* index in s of the record with the largest start_line
MaxStartIdx(s) ==
  CHOOSE m \in 1..Len(s) : \A n \in 1..Len(s) : s[n].start_line <= s[m].start_line

RemoveAt(s, m) == SubSeq(s, 1, m - 1) \o SubSeq(s, m + 1, Len(s))

RECURSIVE SortDesc(_)
SortDesc(s) ==
  IF s = <<>> THEN <<>>
  ELSE LET m == MaxStartIdx(s) IN <<s[m]>> \o SortDesc(RemoveAt(s, m))

dispatchers_unsorted(ds) == ds

\* sorted(dispatchers, key=lambda d: d['start_line'], reverse=True)
dispatchers_sorted(ds) == SortDesc(ds)

\* while start > 0 and not lines[start - 1].strip(): start -= 1
RECURSIVE ExtendBack(_, _)
ExtendBack(ls, start) ==
  IF start > 0 /\ start <= Len(ls) /\ IsBlank(At(ls, start - 1))
  THEN ExtendBack(ls, start - 1) ELSE start

\* if start > 0: start += 1
KeepOne(start) == IF start > 0 THEN start + 1 ELSE start

Min(a, b) == IF a < b THEN a ELSE b

DelSliceWide(ls, start, end) ==
  SubSeq(ls, 1, Min(start, Len(ls))) \o SubSeq(ls, end + 3, Len(ls))

\* del lines[start:end + 1]
DelSlice(ls, start, end) ==
  SubSeq(ls, 1, Min(start, Len(ls))) \o SubSeq(ls, end + 2, Len(ls))

\* the start index of the slice removed for dispatcher d from list ls
DelStart(ls, d) == KeepOne(ExtendBack(ls, d.start_line))

\* text contains r'\bfunc \(p \*Parser\) ' + name + r'\('
HasDeclText(line) == line.kind \in {"func", "funcOpen", "cmtFunc"}

\* cursor_name[:-6]
BaseName(cursor_name) == SubSeq(cursor_name, 1, Len(cursor_name) - 1)

\* re.sub(r'\bfunc \(p \*Parser\) ' + cursor_name + r'\(', ..., new_line)
Sub(line, cursor_name) ==
  IF HasDeclText(line) /\ line.name = cursor_name
  THEN [line EXCEPT !.name = BaseName(cursor_name)]
  ELSE line

\* for cursor_name in cursor_names: new_line = re.sub(...)
RECURSIVE RenameLine(_, _)
RenameLine(line, order) ==
  IF order = <<>> THEN line
  ELSE RenameLine(Sub(line, Head(order)), Tail(order))

cursor_names(ds) == {ds[n].cursor_name : n \in 1..Len(ds)}

\* the orders in which a set can be iterated
Orders(S) ==
  {o \in [1..Cardinality(S) -> S] : \A a, b \in 1..Cardinality(S) : a # b => o[a] # o[b]}

rename_cursor_functions(c, order) == [n \in 1..Len(c) |-> RenameLine(c[n], order)]

\* ---- process_file ----
\* content = f.read(): a document of 1..n lines over the alphabet S
InitWith(S, n) ==
  /\ \E m \in 1..n : doc \in [1..m -> S]
  /\ file = doc
  /\ content = doc
  /\ dispatchers = <<>>
  /\ pending = <<>>
  /\ lines = <<>>
  /\ origin = <<>>
  /\ rescan = <<>>
  /\ pc = "scan"

Init == InitWith(AlphaCore, MaxLen)

InitNames == InitWith(AlphaNames, MaxNamesLen)

\* dispatchers = find_dispatchers(content), found some; remove_dispatchers begins
Scan ==
  /\ pc = "scan"
  /\ find_dispatchers(content) # <<>>
  /\ dispatchers' = find_dispatchers(content)
  /\ lines' = content
  /\ origin' = [n \in 1..Len(content) |-> n - 1]
  /\ pending' = dispatchers_sorted(dispatchers')
  /\ pc' = "remove"
  /\ UNCHANGED <<doc, file, content, rescan>>

\* if not dispatchers: return 0
NoDispatchers ==
  /\ pc = "scan"
  /\ find_dispatchers(content) = <<>>
  /\ dispatchers' = <<>>
  /\ pc' = "returned"
  /\ UNCHANGED <<doc, file, content, pending, lines, origin, rescan>>

\* one iteration of: for dispatcher in dispatchers_sorted
RemoveStep ==
  /\ pc = "remove"
  /\ pending # <<>>
  /\ LET d == Head(pending)
         start == DelStart(lines, d)
     IN /\ lines' = DelSlice(lines, start, d.end_line)
        /\ origin' = DelSlice(origin, start, d.end_line)
  /\ pending' = Tail(pending)
  /\ UNCHANGED <<doc, file, content, dispatchers, rescan, pc>>

\* return '\n'.join(lines)
RemoveReturn ==
  /\ pc = "remove"
  /\ pending = <<>>
  /\ content' = Join(lines)
  /\ pc' = "rename"
  /\ UNCHANGED <<doc, file, dispatchers, pending, lines, origin, rescan>>

\* content = rename_cursor_functions(content, dispatchers)
Rename ==
  /\ pc = "rename"
  /\ \E order \in Orders(cursor_names(dispatchers)) :
       content' = rename_cursor_functions(content, order)
  /\ pc' = "write"
  /\ UNCHANGED <<doc, file, dispatchers, pending, lines, origin, rescan>>

\* f.write(content); return len(dispatchers)
WriteBack ==
  /\ pc = "write"
  /\ file' = content
  /\ pc' = "returned"
  /\ UNCHANGED <<doc, content, dispatchers, pending, lines, origin, rescan>>

\* a second run of process_file reads the file and scans it
Rerun ==
  /\ pc = "returned"
  /\ rescan' = find_dispatchers(file)
  /\ pc' = "done"
  /\ UNCHANGED <<doc, file, content, dispatchers, pending, lines, origin>>

Next ==
  \/ Scan
  \/ NoDispatchers
  \/ RemoveStep
  \/ RemoveReturn
  \/ Rename
  \/ WriteBack
  \/ Rerun

Spec == Init /\ [][Next]_vars

SpecNames == InitNames /\ [][Next]_vars

\* ---- properties ----
Range(s) == {s[n] : n \in DOMAIN s}

\* original indices of the span of record d
Span(d) == d.start_line..d.end_line

\* original indices of the run of blank lines immediately before d's header
BlankRun(d) ==
  {i \in 0..(d.start_line - 1) : \A m \in i..(d.start_line - 1) : IsBlank(At(doc, m))}

Records == Range(dispatchers)

\* remove_dispatchers has returned; lines is the list it joined
Removed == pc = "rename"

\* C1: the output of remove_dispatchers holds none of the original lines
\* start_line..end_line of any record, the header line included.
C1_SpansRemoved ==
  Removed => \A d \in Records : \A i \in Span(d) : i \notin Range(origin)

\* C2: scanning the file written by process_file finds no dispatcher.
C2_RescanEmpty == pc = "done" => rescan = <<>>

\* C3: of a run of k >= 1 blank lines immediately before a recorded header,
\* exactly one line is left in the output of remove_dispatchers.
C3_OneBlankKept ==
  Removed => \A d \in Records :
    BlankRun(d) # {} => Cardinality(BlankRun(d) \cap Range(origin)) = 1

\* non-blank lines strictly between the header and the closing line of d
Statements(d) ==
  {i \in (d.start_line + 1)..(d.end_line - 1) : ~IsBlank(At(doc, i))}

\* C4: no recorded function has a body of two statements.
C4_NoTwoStatementBody ==
  pc # "scan" => \A d \in Records : Cardinality(Statements(d)) # 2

\* line is a declaration at line start: receiver prefix, identifier, "("
IsDeclSite(line) == line.kind \in {"func", "funcOpen"}

\* C5: rename_cursor_functions keeps the number of lines and changes a line
\* only if it is a declaration site of some record's cursor_name.
C5_OnlyDeclarationsRenamed ==
  pc = "write" =>
    /\ Len(content) = Len(Join(lines))
    /\ \A n \in 1..Len(content) :
         content[n] # Join(lines)[n] =>
           /\ IsDeclSite(Join(lines)[n])
           /\ Join(lines)[n].name \in cursor_names(dispatchers)

Ordered(ds) ==
  /\ \A n \in 1..Len(ds) : ds[n].start_line < ds[n].end_line
  /\ \A n \in 1..(Len(ds) - 1) : ds[n].end_line < ds[n + 1].start_line

\* C6: the records of find_dispatchers are in ascending start_line order with
\* pairwise disjoint spans, and start_line < end_line for each.
C6_AscendingDisjoint == Ordered(dispatchers) /\ Ordered(rescan)

C6_Witness == pc = "remove" /\ Len(dispatchers) >= 2

\* index of the first non-blank line after index i of doc, Len(doc) if none
FirstBody(i) ==
  IF \E j \in (i + 1)..(Len(doc) - 1) : ~IsBlank(At(doc, j))
  THEN CHOOSE j \in (i + 1)..(Len(doc) - 1) :
         /\ ~IsBlank(At(doc, j))
         /\ \A m \in (i + 1)..(j - 1) : IsBlank(At(doc, m))
  ELSE Len(doc)

\* header at index i whose first body line returns a call to another target
ForwardsElsewhere(i) ==
  /\ At(doc, i).kind = "func"
  /\ FirstBody(i) < Len(doc)
  /\ At(doc, FirstBody(i)).kind = "ret"
  /\ At(doc, FirstBody(i)).name # At(doc, i).name \o <<"Cursor">>

\* C7: every record has cursor_name = name + "Cursor", name being the header
\* identifier at start_line and cursor_name the call target of the first
\* non-blank line after it; a header forwarding elsewhere gives no record.
C7_SuffixRelation ==
  pc # "scan" =>
    /\ \A d \in Records :
         /\ d.cursor_name = d.name \o <<"Cursor">>
         /\ At(doc, d.start_line).kind = "func"
         /\ At(doc, d.start_line).name = d.name
         /\ FirstBody(d.start_line) < Len(doc)
         /\ At(doc, FirstBody(d.start_line)).kind = "ret"
         /\ At(doc, FirstBody(d.start_line)).name = d.cursor_name
    /\ \A i \in 0..(Len(doc) - 1) :
         ForwardsElsewhere(i) => \A d \in Records : d.start_line # i

C7_Witness ==
  /\ pc = "remove"
  /\ dispatchers # <<>>
  /\ \E i \in 0..(Len(doc) - 1) :
       /\ ForwardsElsewhere(i)
       /\ EndsWithCursor(At(doc, FirstBody(i)).name)
       /\ \A d \in Records : i \notin Span(d)

\* C8: no line after the header inside a recorded span is a function header.
C8_OneDeclarationPerSpan ==
  pc # "scan" =>
    \A d \in Records :
      \A i \in (d.start_line + 1)..d.end_line : ~FuncMatch(At(doc, i))

\* original indices remove_dispatchers may delete
Deletable == UNION {Span(d) \cup BlankRun(d) : d \in Records}

\* C9: remove_dispatchers keeps every line outside the spans and the blank
\* runs before recorded headers, in the original order, and adds no line.
C9_OnlySpansAndBlankRuns ==
  Removed =>
    /\ \A i \in 0..(Len(doc) - 1) : i \notin Deletable => i \in Range(origin)
    /\ \A n \in 1..(Len(origin) - 1) : origin[n] < origin[n + 1]
    /\ Len(lines) = Len(origin)
    /\ \A n \in 1..Len(lines) :
         origin[n] \in 0..(Len(doc) - 1) /\ lines[n] = At(doc, origin[n])

C9_Witness ==
  /\ Removed
  /\ \E i \in 0..(Len(doc) - 1) : i \notin Deletable
  /\ \E d \in Records : BlankRun(d) # {} /\ ~(BlankRun(d) \subseteq Range(origin))

\* C10: when a record is about to be processed, the working list holds at
\* every index 0..end_line of it the line the original document holds there.
C10_IndexStability ==
  (pc = "remove" /\ pending # <<>>) =>
    LET d == Head(pending)
    IN /\ Len(lines) > d.end_line
       /\ \A i \in 0..d.end_line :
            At(origin, i) = i /\ At(lines, i) = At(doc, i)

C10_Witness ==
  /\ pc = "remove"
  /\ pending # <<>>
  /\ Len(pending) < Len(dispatchers)
  /\ \E d \in Records :
       /\ d.start_line > Head(pending).end_line
       /\ BlankRun(d) # {}
       /\ ~(BlankRun(d) \subseteq Range(origin))

====
